---- MODULE Spec2Model ----
(***************************************************************************)
(* Pedometer app (src/app.js): session controller, motion filter and step  *)
(* detector, path accumulator and run archive, as one state machine.       *)
(*                                                                         *)
(* One action per handler.  The handlers run to completion on one event    *)
(* loop, so each action is a whole handler.  What the handlers only write  *)
(* and never read is left out: the display elements (step count, distance, *)
(* time, status text, button and overlay classes), alerts and the console. *)
(***************************************************************************)
EXTENDS Integers, Sequences, FiniteSets, TLC

\* ------------------------------------------------------------------ bounds
T0 == 1000            \* value of Date.now() when the page loads
TickMs == 400         \* what the clock advances by between two handlers
MaxEvents == 8        \* handler runs and clock advances in one run of the page
MaxSamples == 3       \* filter updates in one run of the page

\* ------------------------------------------------------- program constants
\* ALPHA = 0.8, in tenths
ALPHA_TENTHS == 8
\* STEP_THRESHOLD = 2.5 m/s^2, in halves
STEP_THRESHOLD_HALVES == 5
MIN_STEP_DELAY == 300

\* Numbers of the filter are exact rationals over the denominator SCALE:
\* each update divides by 5 once, and there are at most MaxSamples updates.
SCALE == 5 ^ MaxSamples

VARIABLES
    requiresPermission, \* DeviceMotionEvent.requestPermission is a function
    hasGeolocation,     \* navigator.geolocation is truthy
    now,                \* Date.now(); one value for all the calls of one handler
    isTracking, stepCount, startTime, timerInterval, watchId, currentPath,
    gravity,
    lastStepTime,       \* the global binding of that name: declared or not
    intervals,          \* ids of the intervals setInterval keeps running
    watches,            \* ids of the position watches that are registered
    motionListener,     \* handleMotion is a devicemotion listener of window
    nextTimerId, nextWatchId,
    pending,            \* permission promises not yet settled
    storage,            \* localStorage item 'pedometer_runs'
    nSamples,           \* filter updates so far
    nEvents,            \* handler runs and clock advances so far
    spikes,             \* Date.now() of each sample above the threshold, this session
    last                \* the handler that ran last, and what it was given or did

vars == <<requiresPermission, hasGeolocation, now, isTracking, stepCount,
          startTime, timerInterval, watchId, currentPath, gravity,
          lastStepTime, intervals, watches, motionListener, nextTimerId,
          nextWatchId, pending, storage, nSamples, nEvents, spikes, last>>

platform == <<requiresPermission, hasGeolocation>>

\* --------------------------------------------------------------- JS values
\* A JS number of the filter: NaN, or v / SCALE.
Num(v) == [nan |-> FALSE, v |-> v]
NaN == [nan |-> TRUE, v |-> 0]

\* One axis of event.accelerationIncludingGravity.
Axis(n) == [t |-> "number", v |-> n]
AxisUndefined == [t |-> "undefined", v |-> 0]

\* ToNumber of an axis value, over SCALE.
ToNumber(a) ==
    IF a.t = "undefined" THEN NaN ELSE Num(a.v * SCALE)

\* the low-pass update with its two weights exchanged
LowPassSwapped(g, a) ==
    IF g.nan \/ ToNumber(a).nan THEN NaN
    ELSE Num(((10 - ALPHA_TENTHS) * g.v + ALPHA_TENTHS * ToNumber(a).v) \div 10)

\* ALPHA * g + (1 - ALPHA) * a
LowPass(g, a) ==
    IF g.nan \/ ToNumber(a).nan THEN NaN
    ELSE Num((ALPHA_TENTHS * g.v + (10 - ALPHA_TENTHS) * ToNumber(a).v) \div 10)

\* a - g
HighPass(a, g) ==
    IF g.nan \/ ToNumber(a).nan THEN NaN
    ELSE Num(ToNumber(a).v - g.v)

\* Math.sqrt(lx*lx + ly*ly + lz*lz) > STEP_THRESHOLD; false when any is NaN
AboveThreshold(lx, ly, lz) ==
    /\ ~lx.nan /\ ~ly.nan /\ ~lz.nan
    /\ 4 * (lx.v * lx.v + ly.v * ly.v + lz.v * lz.v)
         > STEP_THRESHOLD_HALVES * STEP_THRESHOLD_HALVES * SCALE * SCALE

\* ------------------------------------------------------------------ inputs
NoAcc == [present |-> FALSE, x |-> AxisUndefined, y |-> AxisUndefined, z |-> AxisUndefined]
Acc(x, y, z) == [present |-> TRUE, x |-> x, y |-> y, z |-> z]

\* event.accelerationIncludingGravity of the motion events delivered
SampleSet ==
    { NoAcc,
      Acc(Axis(0), Axis(0), Axis(0)),
      Acc(Axis(0), Axis(0), Axis(4)),
      Acc(AxisUndefined, Axis(0), Axis(4)) }

\* position.coords of the fixes delivered
FixSet == { [latitude |-> 10, longitude |-> 20], [latitude |-> 11, longitude |-> 20] }

\* ----------------------------------------------------------------- storage
\* JSON text of a path and of the history, as the nesting of arrays it spells.
StringifyPath(path) == [i \in 1 .. Len(path) |-> <<path[i].lat, path[i].lng>>]
ParsePath(text) == [i \in 1 .. Len(text) |-> [lat |-> text[i][1], lng |-> text[i][2]]]

StringifyRun(run) ==
    <<run.id, run.date, run.steps, run.startTime, run.endTime, StringifyPath(run.path)>>
ParseRun(t) ==
    [id |-> t[1], date |-> t[2], steps |-> t[3], startTime |-> t[4],
     endTime |-> t[5], path |-> ParsePath(t[6])]

Stringify(history) == [i \in 1 .. Len(history) |-> StringifyRun(history[i])]
Parse(text) == [i \in 1 .. Len(text) |-> ParseRun(text[i])]

\* JSON.parse(localStorage.getItem('pedometer_runs') || '[]')
ReadHistory == IF storage.present THEN Parse(storage.text) ELSE <<>>

\* ids deleteRun is called with: those of the runs renderHistory has listed,
\* and one that no run carries (every id is a past value of the clock)
IdSet == { ReadHistory[i].id : i \in 1 .. Len(ReadHistory) } \cup { now + 1 }

\* localStorage.setItem('pedometer_runs', JSON.stringify(history))
WriteHistory(history) == [present |-> TRUE, text |-> Stringify(history)]

\* new Date().toLocaleString(): the instant to the second
ToLocaleString(t) == t \div 1000

\* the handler op has run; arg is what it was given or did
Ran(op, arg) == [op |-> op, arg |-> arg]

\* undefined (timerInterval) or null (watchId): the ids handed out start at 1
NoId == 0

\* -------------------------------------------------------------------- init
Init ==
    /\ requiresPermission \in BOOLEAN
    /\ hasGeolocation \in BOOLEAN
    /\ now = T0
    /\ isTracking = FALSE
    /\ stepCount = 0
    /\ startTime = 0
    /\ timerInterval = NoId
    /\ watchId = NoId
    /\ currentPath = <<>>
    /\ gravity = [x |-> Num(0), y |-> Num(0), z |-> Num(0)]
    /\ lastStepTime = [declared |-> FALSE, v |-> 0]
    /\ intervals = {}
    /\ watches = {}
    /\ motionListener = FALSE
    /\ nextTimerId = 1
    /\ nextWatchId = 1
    /\ pending = 0
    /\ storage = [present |-> FALSE, text |-> <<>>]
    /\ nSamples = 0
    /\ nEvents = 0
    /\ spikes = <<>>
    /\ last = Ran("init", 0)

\* ----------------------------------------------------------------- actions
\* What beginSession leaves alone, the permission promises aside.
sessionFrame == <<platform, now, gravity, lastStepTime, storage, nSamples>>

\* one more handler has run, or the clock has advanced
CountEvent ==
    /\ nEvents < MaxEvents
    /\ nEvents' = nEvents + 1

\* What belongs to the session and its sensors.
sessionVars == <<isTracking, stepCount, startTime, timerInterval, watchId,
                 currentPath, intervals, watches, motionListener, nextTimerId,
                 nextWatchId, spikes>>

\* beginSession(), lines 94-122
BeginSession ==
    /\ isTracking' = TRUE
    /\ stepCount' = 0
    /\ currentPath' = <<>>
    /\ startTime' = now
    /\ timerInterval' = nextTimerId
    /\ intervals' = intervals \cup {nextTimerId}
    /\ nextTimerId' = nextTimerId + 1
    /\ motionListener' = TRUE
    /\ IF hasGeolocation
       THEN /\ watchId' = nextWatchId
            /\ watches' = watches \cup {nextWatchId}
            /\ nextWatchId' = nextWatchId + 1
       ELSE UNCHANGED <<watchId, watches, nextWatchId>>
    /\ spikes' = <<>>
    /\ UNCHANGED sessionFrame

\* startTracking(), lines 74-92: click on the start button
StartTracking ==
    /\ last' = Ran("startTracking", 0)
    /\ IF requiresPermission
       THEN /\ CountEvent
            /\ pending' = pending + 1
            /\ UNCHANGED <<sessionFrame, sessionVars>>
       ELSE /\ CountEvent
            /\ BeginSession
            /\ UNCHANGED pending

\* requestPermissions(), lines 226-230: click on the grant-permission button
RequestPermissions == StartTracking

\* the .then callback without its test of the response
PermissionResolvedUnchecked(response) ==
    /\ pending > 0
    /\ CountEvent
    /\ pending' = pending - 1
    /\ last' = Ran("permissionResolved", IF response = "granted" THEN 1 ELSE 0)
    /\ BeginSession

\* the .then callback of requestPermission(), lines 80-86
PermissionResolved(response) ==
    /\ pending > 0
    /\ CountEvent
    /\ pending' = pending - 1
    /\ last' = Ran("permissionResolved", IF response = "granted" THEN 1 ELSE 0)
    /\ IF response = "granted"
       THEN BeginSession
       ELSE UNCHANGED <<sessionFrame, sessionVars>>

\* the .catch callback of requestPermission(), line 87
PermissionRejected ==
    /\ pending > 0
    /\ CountEvent
    /\ pending' = pending - 1
    /\ last' = Ran("permissionRejected", 0)
    /\ UNCHANGED <<sessionFrame, sessionVars>>

\* the record saveRun builds, lines 241-248
RunData ==
    [id |-> now, date |-> ToLocaleString(now), steps |-> stepCount,
     startTime |-> startTime, endTime |-> now, path |-> currentPath]

\* saveRun() without its test for an empty session
SaveRunUnguarded == storage' = WriteHistory(<<RunData>> \o ReadHistory)

\* saveRun() storing the new run alone instead of putting it before the
\* stored ones
SaveRunOverwrites ==
    IF stepCount = 0 /\ Len(currentPath) = 0
    THEN UNCHANGED storage
    ELSE storage' = WriteHistory(<<RunData>>)

\* saveRun(), lines 235-254
SaveRun ==
    IF stepCount = 0 /\ Len(currentPath) = 0
    THEN UNCHANGED storage
    ELSE storage' = WriteHistory(<<RunData>> \o ReadHistory)

\* stopTracking(), lines 124-142: click on the stop button
StopTracking ==
    /\ CountEvent
    /\ last' = Ran("stopTracking", IF isTracking THEN 1 ELSE 0)
    /\ isTracking' = FALSE
    /\ intervals' = intervals \ {timerInterval}
    /\ motionListener' = FALSE
    /\ IF watchId # NoId
       THEN /\ watches' = watches \ {watchId}
            /\ watchId' = NoId
       ELSE UNCHANGED <<watches, watchId>>
    /\ SaveRun
    /\ UNCHANGED <<platform, now, stepCount, startTime, timerInterval,
                   currentPath, gravity, lastStepTime, nextTimerId,
                   nextWatchId, pending, nSamples, spikes>>

\* the filter with === for !==
FilterRunsKeepsMatch(history, id) == SelectSeq(history, LAMBDA run : run.id = id)

\* history.filter(run => run.id !== id), line 148
FilterRuns(history, id) == SelectSeq(history, LAMBDA run : run.id # id)

\* deleteRun(id), lines 144-151; confirmed is what confirm() returns
DeleteRun(id, confirmed) ==
    /\ last' = Ran("deleteRun", IF confirmed THEN id ELSE 0)
    /\ IF confirmed
       THEN /\ CountEvent
            /\ storage' = WriteHistory(FilterRuns(ReadHistory, id))
       ELSE UNCHANGED <<storage, nEvents>>
    /\ UNCHANGED <<platform, now, gravity, lastStepTime, nSamples, pending,
                   sessionVars>>

\* handleMotion(event), lines 161-190; acc is event.accelerationIncludingGravity
HandleMotion(acc) ==
    /\ motionListener
    /\ last' = Ran("handleMotion", IF acc.present THEN 1 ELSE 0)
    /\ IF ~isTracking \/ ~acc.present
       THEN UNCHANGED <<gravity, nSamples, stepCount, lastStepTime, spikes, nEvents>>
       ELSE LET gx == LowPass(gravity.x, acc.x)
                gy == LowPass(gravity.y, acc.y)
                gz == LowPass(gravity.z, acc.z)
                linearX == HighPass(acc.x, gx)
                linearY == HighPass(acc.y, gy)
                linearZ == HighPass(acc.z, gz)
            IN /\ CountEvent
               /\ nSamples < MaxSamples
               /\ nSamples' = nSamples + 1
               /\ gravity' = [x |-> gx, y |-> gy, z |-> gz]
               /\ IF AboveThreshold(linearX, linearY, linearZ)
                  THEN /\ spikes' = Append(spikes, now)
                       \* line 184 reads lastStepTime: ReferenceError when no
                       \* such binding exists, and the handler ends there
                       /\ IF lastStepTime.declared /\ now - lastStepTime.v > MIN_STEP_DELAY
                          THEN /\ stepCount' = stepCount + 1
                               /\ lastStepTime' = [declared |-> TRUE, v |-> now]
                          ELSE UNCHANGED <<stepCount, lastStepTime>>
                  ELSE UNCHANGED <<stepCount, lastStepTime, spikes>>
    /\ UNCHANGED <<platform, now, isTracking, startTime, timerInterval,
                   watchId, currentPath, intervals, watches, motionListener,
                   nextTimerId, nextWatchId, pending, storage>>

\* handleLocation without its test of isTracking
HandleLocationUnguarded(coords) ==
    /\ watches # {}
    /\ last' = Ran("handleLocation", coords.latitude)
    /\ CountEvent
    /\ currentPath' = Append(currentPath,
                             [lat |-> coords.latitude, lng |-> coords.longitude])
    /\ UNCHANGED <<platform, now, gravity, lastStepTime, storage, nSamples,
                   pending, isTracking, stepCount, startTime, timerInterval,
                   watchId, intervals, watches, motionListener, nextTimerId,
                   nextWatchId, spikes>>

\* handleLocation leaving out a fix equal to the last point of the path
HandleLocationDedup(coords) ==
    /\ watches # {}
    /\ last' = Ran("handleLocation", coords.latitude)
    /\ IF ~isTracking
       THEN UNCHANGED <<currentPath, nEvents>>
       ELSE LET point == [lat |-> coords.latitude, lng |-> coords.longitude]
            IN /\ CountEvent
               /\ currentPath' =
                     IF currentPath # <<>> /\ currentPath[Len(currentPath)] = point
                     THEN currentPath
                     ELSE Append(currentPath, point)
    /\ UNCHANGED <<platform, now, gravity, lastStepTime, storage, nSamples,
                   pending, isTracking, stepCount, startTime, timerInterval,
                   watchId, intervals, watches, motionListener, nextTimerId,
                   nextWatchId, spikes>>

\* handleLocation(position), lines 194-204; coords is position.coords
HandleLocation(coords) ==
    /\ watches # {}
    /\ last' = Ran("handleLocation", coords.latitude)
    /\ IF ~isTracking
       THEN UNCHANGED <<currentPath, nEvents>>
       ELSE /\ CountEvent
            /\ currentPath' = Append(currentPath,
                                     [lat |-> coords.latitude, lng |-> coords.longitude])
    /\ UNCHANGED <<platform, now, gravity, lastStepTime, storage, nSamples, pending, isTracking, stepCount, startTime,
                   timerInterval, watchId, intervals, watches, motionListener,
                   nextTimerId, nextWatchId, spikes>>

\* handleError(error), lines 206-208: a registered watch reports a failure
HandleError ==
    /\ watches # {}
    /\ last' = Ran("handleError", 0)
    /\ UNCHANGED <<sessionFrame, sessionVars, pending, nEvents>>

\* updateTimer(), lines 210-217, run by an interval that is still registered
UpdateTimer ==
    /\ intervals # {}
    /\ last' = Ran("updateTimer", 0)
    /\ UNCHANGED <<sessionFrame, sessionVars, pending, nEvents>>

\* time passes between two handlers
Tick ==
    /\ CountEvent
    /\ last' = Ran("tick", 0)
    /\ now' = now + TickMs
    /\ UNCHANGED <<platform, gravity, lastStepTime, storage, nSamples,
                   pending, sessionVars>>

Next ==
    \/ StartTracking
    \/ RequestPermissions
    \/ \E response \in {"granted", "denied"} : PermissionResolved(response)
    \/ PermissionRejected
    \/ StopTracking
    \/ \E id \in IdSet, confirmed \in BOOLEAN : DeleteRun(id, confirmed)
    \/ \E acc \in SampleSet : HandleMotion(acc)
    \/ \E coords \in FixSet : HandleLocation(coords)
    \/ HandleError
    \/ UpdateTimer
    \/ Tick

Spec == Init /\ [][Next]_vars

\* ------------------------------------------------------------------ claims
ArchiveIds(history) == { history[i].id : i \in 1 .. Len(history) }

\* every spike comes more than MIN_STEP_DELAY after the one before it
Separated(times) ==
    \A i \in 2 .. Len(times) : times[i] - times[i - 1] > MIN_STEP_DELAY

\* C1: stopTracking on a session with stepCount 0 and an empty path appends
\* no run: the stored run list is the same before and after.
C1_EmptyStopAppendsNothing ==
    [][(StopTracking /\ stepCount = 0 /\ currentPath = <<>>)
         => (storage' = storage /\ ReadHistory' = ReadHistory)]_vars

\* an active session that recorded nothing was stopped, after an earlier one
\* had been archived
C1_Witness ==
    /\ last = Ran("stopTracking", 1)
    /\ stepCount = 0
    /\ currentPath = <<>>
    /\ Len(ReadHistory) >= 1

C3_DeleteRemovesMatching ==
    [][\A id \in IdSet :
         DeleteRun(id, TRUE) =>
           LET old == ReadHistory
               new == ReadHistory'
               keep == { i \in 1 .. Len(old) : old[i].id # id }
               nth(j) == CHOOSE i \in keep : Cardinality({ k \in keep : k <= i }) = j
           IN /\ Len(new) = Cardinality(keep)
              /\ \A j \in 1 .. Len(new) : new[j] = old[nth(j)]
              /\ (id \notin ArchiveIds(old)) => new = old]_vars

\* a confirmed delete removed a run and left two runs of other ids behind
C3_Witness ==
    /\ last.op = "deleteRun"
    /\ last.arg >= T0
    /\ last.arg <= now
    /\ Len(ReadHistory) >= 2
    /\ ReadHistory[1].id # ReadHistory[2].id

\* C4: where the motion permission must be requested, startTracking and a
\* request that is denied or rejected leave the session state as it was, and
\* isTracking turns true only in the callback of a granted request.
C4_PermissionGatesSession ==
    [][requiresPermission =>
         /\ (StartTracking \/ PermissionResolved("denied") \/ PermissionRejected)
              => UNCHANGED <<sessionVars, gravity, lastStepTime, storage>>
         /\ (~isTracking /\ isTracking') => PermissionResolved("granted")]_vars

\* a request was denied and no session has ever been begun
C4_Witness ==
    /\ requiresPermission
    /\ last = Ran("permissionResolved", 0)
    /\ ~isTracking
    /\ timerInterval = NoId
    /\ nextTimerId = 1
    /\ stepCount = 0 /\ currentPath = <<>> /\ startTime = 0

\* C5: every run of beginSession leaves the gravity estimate zero, stepCount
\* 0, the path empty and startTime the current instant.
C5_BeginSessionResets ==
    [][(nextTimerId' = nextTimerId + 1)
         => /\ gravity' = [x |-> Num(0), y |-> Num(0), z |-> Num(0)]
            /\ stepCount' = 0
            /\ currentPath' = <<>>
            /\ startTime' = now]_vars

\* C6: two samples above the threshold less than MIN_STEP_DELAY apart
\* register exactly one step.
C6_DebounceOneStep ==
    (Len(spikes) = 2 /\ spikes[2] - spikes[1] < MIN_STEP_DELAY) => stepCount = 1

\* C7: N samples above the threshold, each more than MIN_STEP_DELAY after
\* the one before, register exactly N steps.
C7_SeparatedSpikesCount ==
    Separated(spikes) => stepCount = Len(spikes)

\* C8: from the session becoming active until stopTracking, isTracking stays
\* true and neither stepCount nor the length of the path decreases.
C8_SessionMonotone ==
    [][(isTracking /\ ~StopTracking)
         => /\ isTracking'
            /\ stepCount' >= stepCount
            /\ Len(currentPath') >= Len(currentPath)]_vars

\* C9: stopTracking when already idle changes neither the controller state
\* nor the archive.
C9_StopIdempotent ==
    [][(StopTracking /\ ~isTracking)
         => /\ ReadHistory' = ReadHistory
            /\ UNCHANGED <<isTracking, stepCount, startTime, currentPath,
                           watchId, intervals, watches, motionListener>>]_vars

\* C10: the ids of the archived runs are pairwise distinct.
C10_IdsDistinct ==
    \A i, j \in 1 .. Len(ReadHistory) :
        i # j => ReadHistory[i].id # ReadHistory[j].id

\* s can be had from t by leaving elements out
RECURSIVE IsSubseq(_, _)
IsSubseq(s, t) ==
    IF s = <<>> THEN TRUE
    ELSE IF t = <<>> THEN FALSE
    ELSE IF Head(s) = Head(t) THEN IsSubseq(Tail(s), Tail(t))
    ELSE IsSubseq(s, Tail(t))

\* C11: an archived run never changes.  A step that is not a confirmed
\* deleteRun keeps every stored run, each as it was and in the same order;
\* a confirmed deleteRun(id) keeps, as they were and in the same order, all
\* the runs whose id is not id, and stores nothing new.  (A step that leaves
\* the stored item as it was keeps them all.)
C11_ArchivedRunImmutable ==
    [][\/ storage' = storage
       \/ LET old == ReadHistory
              new == ReadHistory'
          IN IF \E id \in IdSet : DeleteRun(id, TRUE)
             THEN /\ IsSubseq(new, old)
                  /\ IsSubseq(SelectSeq(old, LAMBDA run : run.id # last'.arg), new)
             ELSE IsSubseq(old, new)]_vars

\* a run archived at an earlier instant is still the oldest stored one
\* while a later session, begun after it, has recorded a fix
C11_Witness ==
    /\ Len(ReadHistory) >= 1
    /\ ReadHistory[Len(ReadHistory)].endTime < startTime
    /\ isTracking
    /\ last.op = "handleLocation"
    /\ Len(currentPath) >= 1

\* the sample object is absent, or one of its axes is
MissingAxisData(acc) ==
    \/ ~acc.present
    \/ acc.x.t = "undefined" \/ acc.y.t = "undefined" \/ acc.z.t = "undefined"

\* C12: a motion event with missing axis data (no sample object, or an axis
\* absent) is dropped: gravity, stepCount and lastStepTime stay as they were.
C12_MalformedSampleDropped ==
    [][\A acc \in SampleSet :
         (MissingAxisData(acc) /\ HandleMotion(acc))
           => UNCHANGED <<gravity, stepCount, lastStepTime>>]_vars

\* C13: stopTracking on an active session leaves it idle, whether or not a
\* run was stored; and while the session is idle no motion sample and no
\* location fix changes stepCount, the path or the stored runs.
C13_StopThenHandlersInert ==
    [][/\ (StopTracking /\ isTracking) => ~isTracking'
       /\ (/\ ~isTracking
           /\ \/ \E acc \in SampleSet : HandleMotion(acc)
              \/ \E coords \in FixSet : HandleLocation(coords))
            => /\ stepCount' = stepCount
               /\ currentPath' = currentPath
               /\ ReadHistory' = ReadHistory]_vars

\* a fix was delivered, by a watch that is still registered, to a session
\* that had been begun and stopped
C13_Witness ==
    /\ last.op = "handleLocation"
    /\ ~isTracking
    /\ timerInterval # NoId
    /\ watches # {}

\* every axis of the sample and of the gravity estimate is a number
WellFormed(acc) ==
    /\ acc.present /\ ~MissingAxisData(acc)
    /\ ~gravity.x.nan /\ ~gravity.y.nan /\ ~gravity.z.nan

\* sample minus gravity estimate on one axis, over SCALE
Gap(a, g) == a.v * SCALE - g.v

\* C14: each sample moves every axis of the gravity estimate toward the
\* sample's value and leaves 0.8 of the gap, on the same side; the linear
\* acceleration is that remaining gap, so under a repeated sample its
\* magnitude falls by the factor 0.8 each time, and a sample is above the
\* threshold only if 0.8 of the old gap is; a sample that is not registers
\* no step.
C14_GravityConverges ==
    [][\A acc \in SampleSet :
         (isTracking /\ WellFormed(acc) /\ HandleMotion(acc))
           => LET gx == Gap(acc.x, gravity.x)
                  gy == Gap(acc.y, gravity.y)
                  gz == Gap(acc.z, gravity.z)
              IN /\ 5 * Gap(acc.x, gravity.x') = 4 * gx
                 /\ 5 * Gap(acc.y, gravity.y') = 4 * gy
                 /\ 5 * Gap(acc.z, gravity.z') = 4 * gz
                 /\ (spikes' # spikes)
                      <=> (64 * (gx * gx + gy * gy + gz * gz)
                             > 625 * SCALE * SCALE)
                 /\ (spikes' = spikes) => (stepCount' = stepCount)]_vars

\* the sample {0, 0, 4} three times from a zero estimate: the magnitudes
\* are 3.2, 2.56 and 2.048, the third below the threshold, and the estimate
\* on z is 1.952
C14_Witness ==
    /\ last = Ran("handleMotion", 1)
    /\ nSamples = 3
    /\ Len(spikes) = 2
    /\ gravity.x = Num(0) /\ gravity.y = Num(0)
    /\ ~gravity.z.nan
    /\ gravity.z.v * 125 = 244 * SCALE

\* C15: a location failure is not fatal.  handleError leaves isTracking,
\* stepCount, the path, the filter state and the stored runs as they were;
\* and in a session whose watch has just reported a failure, or that was
\* begun without geolocation, a sample above the threshold with no step
\* time recorded yet still registers a step.
C15_LocationFailureNonFatal ==
    [][/\ HandleError
            => /\ UNCHANGED <<isTracking, stepCount, currentPath, gravity,
                              lastStepTime>>
               /\ ReadHistory' = ReadHistory
       /\ (/\ isTracking
           /\ last.op = "handleError" \/ ~hasGeolocation
           /\ ~lastStepTime.declared
           /\ \E acc \in SampleSet : HandleMotion(acc)
           /\ spikes' # spikes)
            => stepCount' = stepCount + 1]_vars

\* C16: a sample registers a step exactly when its linear magnitude is
\* above STEP_THRESHOLD and more than MIN_STEP_DELAY has passed since
\* lastStepTime (no step time recorded counts as passed); then stepCount
\* grows by one and lastStepTime becomes the current instant, and otherwise
\* both stay as they were.
C16_StepRegisteredIff ==
    [][\A acc \in SampleSet :
         (HandleMotion(acc) /\ isTracking /\ acc.present)
           => IF /\ spikes' # spikes
                 /\ \/ ~lastStepTime.declared
                    \/ now - lastStepTime.v > MIN_STEP_DELAY
              THEN /\ stepCount' = stepCount + 1
                   /\ lastStepTime' = [declared |-> TRUE, v |-> now]
              ELSE UNCHANGED <<stepCount, lastStepTime>>]_vars

\* C17: a fix delivered to an active session makes the path one point
\* longer: the points it had stay where they were, the new last point is
\* the fix's latitude and longitude, also when it repeats the point before
\* it; stepCount and the filter state stay as they were.
C17_FixAppended ==
    [][\A coords \in FixSet :
         (HandleLocation(coords) /\ isTracking)
           => LET n == Len(currentPath)
              IN /\ Len(currentPath') = n + 1
                 /\ \A i \in 1 .. n : currentPath'[i] = currentPath[i]
                 /\ currentPath'[n + 1].lat = coords.latitude
                 /\ currentPath'[n + 1].lng = coords.longitude
                 /\ UNCHANGED <<stepCount, gravity, lastStepTime>>]_vars

\* the fix just delivered to an active session repeats the point before it,
\* after a different first point
C17_Witness ==
    /\ last.op = "handleLocation"
    /\ isTracking
    /\ Len(currentPath) = 3
    /\ currentPath[3] = currentPath[2]
    /\ currentPath[1] # currentPath[2]

\* C18: stopTracking while a permission request is pending and no session
\* is active stores no run; and when the request is then granted the session
\* is active with stepCount 0 and an empty path.
C18_StopWhilePending ==
    [][/\ (StopTracking /\ ~isTracking /\ pending > 0)
            => ReadHistory' = ReadHistory
       /\ (PermissionResolved("granted") /\ last.op = "stopTracking")
            => /\ isTracking'
               /\ stepCount' = 0
               /\ currentPath' = <<>>]_vars

\* C19: at most one timer interval and at most one location watch are
\* registered at any time, and none while no session is active.
C19_OneSessionsResources ==
    /\ Cardinality(intervals) <= 1
    /\ Cardinality(watches) <= 1
    /\ ~isTracking => (intervals = {} /\ watches = {})

\* C20: every stored run has steps > 0 or a non-empty path, has steps >= 0,
\* and has startTime <= endTime.
C20_ArchiveInvariant ==
    \A i \in 1 .. Len(ReadHistory) :
        LET run == ReadHistory[i]
        IN /\ run.steps > 0 \/ Len(run.path) > 0
           /\ run.steps >= 0
           /\ run.startTime <= run.endTime

\* two runs are stored, one of a session that lasted some time and one of a
\* session stopped at the instant it was begun
C20_Witness ==
    /\ Len(ReadHistory) >= 2
    /\ \E i \in 1 .. Len(ReadHistory) :
          ReadHistory[i].startTime < ReadHistory[i].endTime
    /\ \E i \in 1 .. Len(ReadHistory) :
          /\ ReadHistory[i].startTime = ReadHistory[i].endTime
          /\ Len(ReadHistory[i].path) = 1

====
